---- MODULE Spec2Model ----
(***************************************************************************)
(* Model of homework.py: the credential check, the API client, the        *)
(* response validator, the status translator, the notifier and the poll   *)
(* loop of main().                                                         *)
(*                                                                         *)
(* Texts: the source's Russian literals are written here as ASCII          *)
(* renderings (the parser accepts ASCII strings only); two texts are equal *)
(* here exactly when the source's are.                                     *)
(* Python values: None is the string "<None>"; a dict of strings is        *)
(* [type |-> "dict", items |-> a set of <<key, value>> pairs]; a value of  *)
(* another type carries its type name and no items.                        *)
(***************************************************************************)
EXTENDS Integers, Sequences, FiniteSets, TLC

\* ------------------------------------------------------------------ bounds
\* Number of poll-loop iterations explored.
MaxIter == 3

\* --------------------------------------------------------------- constants
RETRY_PERIOD == 600
HTTP_OK == 200
ENDPOINT == "https://practicum.yandex.ru/api/user_api/homework_statuses/"

None == "<None>"

\* HOMEWORK_VERDICTS: status key -> verdict sentence.
HOMEWORK_VERDICTS ==
  [approved  |-> "Work checked: the reviewer liked everything. Hooray!",
   reviewing |-> "Work taken for review by the reviewer.",
   rejected  |-> "Work checked: the reviewer has remarks."]

\* ------------------------------------------------------- Python exceptions
NoError == [type |-> "None", text |-> ""]
Exc(type, text) == [type |-> type, text |-> text]

\* Result of a call: a return value, or an exception raised.
Return(v) == [raised |-> NoError, value |-> v]
Raise(type, text) == [raised |-> Exc(type, text), value |-> None]

\* -------------------------------------------------------------- JSON values
Dict(items) == [type |-> "dict", items |-> items]
NonDict(t) == [type |-> t, items |-> {}]

\* key in d
HasKey(d, k) == \E p \in d.items : p[1] = k
\* d[key] for a key that is present
Item(d, k) == (CHOOSE p \in d.items : p[1] = k)[2]
\* d.get(key): the value or None
Get(d, k) == IF HasKey(d, k) THEN Item(d, k) ELSE None

RECURSIVE Join(_, _)
\* sep.join(seq)
Join(sep, seq) ==
  IF seq = <<>> THEN ""
  ELSE IF Len(seq) = 1 THEN seq[1]
  ELSE seq[1] \o sep \o Join(sep, Tail(seq))

\* ------------------------------------------------------------ check_tokens
TokenNames == <<"PRACTICUM_TOKEN", "TELEGRAM_TOKEN", "TELEGRAM_CHAT_ID">>

\* MissingTokens that leaves the loop of line 52 at the first missing name.
MissingTokensFirstOnly(tokens) ==
  LET missing == SelectSeq(TokenNames, LAMBDA n : tokens[n] = None) IN
  IF missing = <<>> THEN <<>> ELSE << missing[1] >>

\* The names whose value is None, in the order of required_tokens.
MissingTokens(tokens) ==
  SelectSeq(TokenNames, LAMBDA n : tokens[n] = None)

\* check_tokens(): [ok, log]
check_tokens(tokens) ==
  LET missing_tokens == MissingTokens(tokens) IN
  IF missing_tokens # <<>>
  THEN [ok  |-> FALSE,
        log |-> << [level |-> "CRITICAL",
                    msg |-> "Required tokens are missing: "
                            \o Join(", ", missing_tokens)] >>]
  ELSE [ok |-> TRUE, log |-> <<>>]

\* ------------------------------------------------------------ send_message
\* What bot.send_message does with one call: it returns, it raises
\* telegram.error.TelegramError, or it raises an exception of the telebot
\* library (telebot.apihelper.ApiTelegramException), which is no subclass of
\* TelegramError.
DeliveryOutcomes == {"delivered", "TelegramError", "ApiTelegramException"}
DeliveryErrorText == "A request to the Telegram API was unsuccessful."

\* send_message(bot, message) when the bot behaves as `outcome`:
\* [raised, value, log, calls]; calls are the bot.send_message calls made.
send_message(outcome, chat_id, message) ==
  LET call == << [chat_id |-> chat_id, text |-> message] >> IN
  CASE outcome = "delivered" ->
         Return(TRUE) @@
         [log |-> << [level |-> "DEBUG",
                      msg |-> "Bot sent message \"" \o message \o "\""] >>,
          calls |-> call]
    [] outcome = "TelegramError" ->
         Return(FALSE) @@
         [log |-> << [level |-> "ERROR",
                      msg |-> "Error sending message to Telegram: "
                              \o DeliveryErrorText] >>,
          calls |-> call]
    [] OTHER ->
         Raise(outcome, DeliveryErrorText) @@ [log |-> <<>>, calls |-> call]

\* ---------------------------------------------------------- get_api_answer
\* response.url of requests.get(ENDPOINT, params={"from_date": timestamp}).
RequestUrl(timestamp) == ENDPOINT \o "?from_date=" \o ToString(timestamp)

\* One HTTP exchange, as requests.get and response.json() see it:
\*   kind "RequestException": requests.get raises (timeout, connection, DNS);
\*   kind "response": a response with status_code, headers, text, and a body
\*   that response.json() decodes to `json` (decodable) or rejects with
\*   ValueError (not decodable).
TransportFailure ==
  [kind |-> "RequestException", status_code |-> 0, headers |-> "", text |-> "",
   decodable |-> FALSE, json |-> None]
HttpResponse(code, text, decodable, json) ==
  [kind |-> "response", status_code |-> code, headers |-> "{}", text |-> text,
   decodable |-> decodable, json |-> json]

\* get_api_answer that treats every status below 500 as a success.
get_api_answer_server_errors_only(exchange, timestamp) ==
  IF exchange.kind = "RequestException"
  THEN Raise("APIRequestError",
             "('API request error: %s', ConnectionError())")
  ELSE IF exchange.status_code >= 500
  THEN Raise("APIRequestError",
             "Endpoint " \o ENDPOINT \o " is unavailable.\n "
             \o "API response code: " \o ToString(exchange.status_code) \o ".\n "
             \o "Request URL: " \o RequestUrl(timestamp) \o ".\n "
             \o "Response headers: " \o exchange.headers \o ".\n "
             \o "Response text: " \o exchange.text)
  ELSE IF ~exchange.decodable
  THEN Raise("APIRequestError",
             "('API response decode error: %s', JSONDecodeError())")
  ELSE Return(exchange.json)

\* get_api_answer(timestamp) when the network behaves as `exchange`.
get_api_answer(exchange, timestamp) ==
  IF exchange.kind = "RequestException"
  THEN Raise("APIRequestError",
             "('API request error: %s', ConnectionError())")
  ELSE IF exchange.status_code # HTTP_OK
  THEN Raise("APIRequestError",
             "Endpoint " \o ENDPOINT \o " is unavailable.\n "
             \o "API response code: " \o ToString(exchange.status_code) \o ".\n "
             \o "Request URL: " \o RequestUrl(timestamp) \o ".\n "
             \o "Response headers: " \o exchange.headers \o ".\n "
             \o "Response text: " \o exchange.text)
  ELSE IF ~exchange.decodable
  THEN Raise("APIRequestError",
             "('API response decode error: %s', JSONDecodeError())")
  ELSE Return(exchange.json)

\* ---------------------------------------------------------- check_response
\* A decoded body: its JSON type; for a dict the keys present among
\* homeworks and current_date and their values. The value of homeworks is
\* [type, elems]: a list with its elements, or a value of another type.
JsonList(elems) == [type |-> "list", elems |-> elems]
JsonOther(t) == [type |-> t, elems |-> <<>>]
Body(type, keys, homeworks, current_date) ==
  [type |-> type, keys |-> keys, homeworks |-> homeworks,
   current_date |-> current_date]

\* check_response without the check of lines 110-113.
check_response_no_date(response) ==
  IF response.type # "dict"
  THEN Raise("TypeError", "API response has a wrong format: not a dict")
  ELSE IF "homeworks" \notin response.keys
  THEN Raise("KeyError",
             "'Expected key \"homeworks\" is missing in the API response'")
  ELSE IF response.homeworks.type # "list"
  THEN Raise("TypeError",
             "API response has a wrong format: \"homeworks\" is not a list")
  ELSE Return(response.homeworks.elems)

check_response(response) ==
  IF response.type # "dict"
  THEN Raise("TypeError", "API response has a wrong format: not a dict")
  ELSE IF "homeworks" \notin response.keys
  THEN Raise("KeyError",
             "'Expected key \"homeworks\" is missing in the API response'")
  ELSE IF "current_date" \notin response.keys
  THEN Raise("KeyError",
             "'Expected key \"current_date\" is missing in the API response'")
  ELSE LET homeworks == response.homeworks IN
       IF homeworks.type # "list"
       THEN Raise("TypeError",
                  "API response has a wrong format: \"homeworks\" is not a list")
       ELSE Return(homeworks.elems)

\* parse_status without the check of lines 141-144.
parse_status_unchecked(homework) ==
  IF homework.type # "dict"
  THEN Raise("HomeworkStatusError", "Homework information has a wrong format")
  ELSE IF ~HasKey(homework, "homework_name")
  THEN Raise("HomeworkStatusError",
             "Key \"homework_name\" is missing in the homework information")
  ELSE IF ~HasKey(homework, "status")
  THEN Raise("HomeworkStatusError",
             "Key \"status\" is missing in the homework information")
  ELSE Return("Review status of work \"" \o Item(homework, "homework_name")
              \o "\" has changed. " \o Item(homework, "status"))

\* ------------------------------------------------------------ parse_status
parse_status(homework) ==
  IF homework.type # "dict"
  THEN Raise("HomeworkStatusError", "Homework information has a wrong format")
  ELSE IF ~HasKey(homework, "homework_name")
  THEN Raise("HomeworkStatusError",
             "Key \"homework_name\" is missing in the homework information")
  ELSE IF ~HasKey(homework, "status")
  THEN Raise("HomeworkStatusError",
             "Key \"status\" is missing in the homework information")
  ELSE LET homework_name == Item(homework, "homework_name")
           homework_status == Item(homework, "status")
       IN  IF homework_status \notin DOMAIN HOMEWORK_VERDICTS
           THEN Raise("HomeworkStatusError",
                      "Unexpected homework status: " \o homework_status)
           ELSE LET verdict == HOMEWORK_VERDICTS[homework_status] IN
                Return("Review status of work \"" \o homework_name
                       \o "\" has changed. " \o verdict)

\* ------------------------------------------------------------------ inputs
\* os.getenv gives None for an unset variable and the string for a set one,
\* the empty string included.
TokenTriples ==
  [PRACTICUM_TOKEN : {None, "practicum-token"},
   TELEGRAM_TOKEN : {None, "telegram-token"},
   TELEGRAM_CHAT_ID : {None, "", "chat-id"}]

\* int(time.time()) at startup, and the current_date values the API reports.
StartTimes == {1699999400}
CurrentDates == {1700000000, 1700000600}

HomeworkNames == {"hw1", "hw2"}
HomeworkStatuses == {"approved", "reviewing", "rejected", "unknown_status"}

\* The first element of a homeworks list: a JSON string, or a dict with or
\* without each of the keys homework_name and status.
HomeworkValues ==
  {NonDict("str")} \cup
  { Dict(n \cup s) :
      n \in {{}} \cup { {<<"homework_name", x>>} : x \in HomeworkNames },
      s \in {{}} \cup { {<<"status", x>>} : x \in HomeworkStatuses } }

\* What follows the first element: nothing, or a valid record of another
\* homework and a JSON string.
LaterValues ==
  << Dict({<<"homework_name", "hw2">>, <<"status", "rejected">>}),
     NonDict("str") >>

HomeworkLists ==
  {<<>>} \cup { <<h>> \o t : h \in HomeworkValues, t \in {<<>>, LaterValues} }

\* Decoded bodies: a list; dicts lacking one or both keys; a dict whose
\* homeworks is no list; dicts with a homeworks list and a current_date.
Bodies ==
  { Body("list", {}, JsonOther("null"), 0) } \cup
  { Body("dict", {}, JsonOther("null"), 0) } \cup
  { Body("dict", {"current_date"}, JsonOther("null"), 1700000000) } \cup
  { Body("dict", {"homeworks"}, JsonList(<<>>), 0) } \cup
  { Body("dict", {"homeworks"}, JsonOther("dict"), 0) } \cup
  { Body("dict", {"homeworks", "current_date"}, JsonOther("dict"), 1700000000) } \cup
  { Body("dict", {"homeworks", "current_date"}, JsonList(l), 1700000000) :
      l \in HomeworkLists } \cup
  { Body("dict", {"homeworks", "current_date"}, JsonList(<<>>), d) :
      d \in CurrentDates }

NonOkCodes == {404, 503}

Exchanges ==
  { TransportFailure } \cup
  { HttpResponse(c, "error page", FALSE, None) : c \in NonOkCodes } \cup
  { HttpResponse(HTTP_OK, "<html>", FALSE, None) } \cup
  { HttpResponse(HTTP_OK, "json", TRUE, b) : b \in Bodies }

NoExchange ==
  [kind |-> "none", status_code |-> 0, headers |-> "", text |-> "",
   decodable |-> FALSE, json |-> None]

\* -------------------------------------------------------------------- main
\* StatusChanged without the comparison of line 173.
StatusChangedNewOnly(status_memory, homework_name, homework_status) ==
  homework_name \notin DOMAIN status_memory

\* Lines 171-174: the status of the first homework is new or has changed.
StatusChanged(status_memory, homework_name, homework_status) ==
  \/ homework_name \notin DOMAIN status_memory
  \/ status_memory[homework_name] # homework_status

\* ShouldNotifyError without the membership test of line 184.
ShouldNotifyErrorLastOnly(text, previous, notified) ==
  text # previous

\* Lines 183-184: the error text is to be sent to the chat.
ShouldNotifyError(text, previous, notified) ==
  /\ text # previous
  /\ text \notin notified

\* CurrentDate that keeps the old cursor.
CurrentDateKeep(api_response, default) == default

\* CurrentDate that moves the cursor by the polling period.
CurrentDateByPeriod(api_response, default) == default + RETRY_PERIOD

\* api_response.get("current_date", timestamp)
CurrentDate(api_response, default) ==
  IF "current_date" \in api_response.keys THEN api_response.current_date
  ELSE default

\* The outcome of the try block (lines 163-179).
TryResult(raised, ts, memory, log, sends) ==
  [raised |-> raised, timestamp |-> ts, last_status |-> memory,
   log |-> log, sends |-> sends]

\* One bot.send_message call of the loop, as observed.
Send(purpose, sent, outcome) ==
  [purpose |-> purpose, chat_id |-> sent.calls[1].chat_id,
   text |-> sent.calls[1].text, outcome |-> outcome,
   result |-> IF sent.raised # NoError THEN "raised"
              ELSE IF sent.value THEN "True" ELSE "False"]

\* NotifyStatus with lines 176 and 177 exchanged: the status is remembered
\* before the notification is sent.
NotifyStatusRememberFirst(api_response, homework_name, homework_status, sent, delivery, ts, memory) ==
  TryResult(sent.raised,
            IF sent.raised # NoError THEN ts
            ELSE IF "current_date" \in api_response.keys
                 THEN api_response.current_date ELSE ts,
            (homework_name :> homework_status) @@ memory,
            sent.log,
            << [purpose |-> "status", chat_id |-> sent.calls[1].chat_id,
                text |-> sent.calls[1].text, outcome |-> delivery,
                result |-> IF sent.raised # NoError THEN "raised"
                           ELSE IF sent.value THEN "True" ELSE "False"] >>)

\* NotifyStatus that remembers the status only when send_message returned
\* True.
NotifyStatusIfDelivered(api_response, homework_name, homework_status, sent, delivery, ts, memory) ==
  IF sent.raised # NoError
  THEN TryResult(sent.raised, ts, memory, sent.log,
                 << Send("status", sent, delivery) >>)
  ELSE TryResult(NoError, CurrentDate(api_response, ts),
                 IF sent.value
                 THEN (homework_name :> homework_status) @@ memory
                 ELSE memory,
                 sent.log, << Send("status", sent, delivery) >>)

\* Lines 176-179: the notification is sent, the status remembered, the
\* cursor advanced.
NotifyStatus(api_response, homework_name, homework_status, sent, delivery, ts, memory) ==
  IF sent.raised # NoError
  THEN TryResult(sent.raised, ts, memory, sent.log,
                 << Send("status", sent, delivery) >>)
  ELSE TryResult(NoError, CurrentDate(api_response, ts),
                 (homework_name :> homework_status) @@ memory,
                 sent.log, << Send("status", sent, delivery) >>)

\* RenderStatus that remembers the status although rendering failed.
RenderStatusRememberAlways(api_response, homework_name, homework_status, message, delivery, chat_id, ts, memory) ==
  IF message.raised # NoError
  THEN TryResult(message.raised, ts,
                 (homework_name :> homework_status) @@ memory, <<>>, <<>>)
  ELSE NotifyStatus(api_response, homework_name, homework_status,
                    send_message(delivery, chat_id, message.value), delivery,
                    ts, memory)

\* Lines 175-176: the message is rendered, then sent.
RenderStatus(api_response, homework_name, homework_status, message, delivery, chat_id, ts, memory) ==
  IF message.raised # NoError
  THEN TryResult(message.raised, ts, memory, <<>>, <<>>)
  ELSE NotifyStatus(api_response, homework_name, homework_status,
                    send_message(delivery, chat_id, message.value), delivery,
                    ts, memory)

\* Lines 171-179: the comparison against last_status.
CompareStatus(api_response, homework, homework_name, homework_status, delivery, chat_id, ts, memory) ==
  IF ~StatusChanged(memory, homework_name, homework_status)
  THEN TryResult(NoError, CurrentDate(api_response, ts), memory, <<>>, <<>>)
  ELSE RenderStatus(api_response, homework_name, homework_status,
                    parse_status(homework), delivery, chat_id, ts, memory)

\* Lines 168-170: homeworks[0] and its two .get calls, which a value that is
\* no dict does not have.
FirstHomework(api_response, homework, delivery, chat_id, ts, memory) ==
  IF homework.type # "dict"
  THEN TryResult(Exc("AttributeError",
                     "'" \o homework.type \o "' object has no attribute 'get'"),
                 ts, memory, <<>>, <<>>)
  ELSE CompareStatus(api_response, homework, Get(homework, "homework_name"),
                     Get(homework, "status"), delivery, chat_id, ts, memory)

\* AfterCheck that takes the last element of homeworks instead of the first.
AfterCheckLast(api_response, checked, delivery, chat_id, ts, memory) ==
  IF checked.raised # NoError
  THEN TryResult(checked.raised, ts, memory, <<>>, <<>>)
  ELSE IF checked.value = <<>>
  THEN TryResult(NoError, CurrentDate(api_response, ts), memory,
                 << [level |-> "DEBUG",
                     msg |-> "No new statuses in the response"] >>,
                 <<>>)
  ELSE FirstHomework(api_response, checked.value[Len(checked.value)],
                     delivery, chat_id, ts, memory)

\* Lines 164-179, given the result of check_response.
AfterCheck(api_response, checked, delivery, chat_id, ts, memory) ==
  IF checked.raised # NoError
  THEN TryResult(checked.raised, ts, memory, <<>>, <<>>)
  ELSE IF checked.value = <<>>
  THEN TryResult(NoError, CurrentDate(api_response, ts), memory,
                 << [level |-> "DEBUG",
                     msg |-> "No new statuses in the response"] >>,
                 <<>>)
  ELSE FirstHomework(api_response, checked.value[1], delivery, chat_id, ts,
                     memory)

\* Lines 163-179, given the result of get_api_answer.
AfterRequest(api, delivery, chat_id, ts, memory) ==
  IF api.raised # NoError
  THEN TryResult(api.raised, ts, memory, <<>>, <<>>)
  ELSE AfterCheck(api.value, check_response(api.value), delivery, chat_id, ts,
                  memory)

\* Lines 163-179 with the network behaving as `exchange` and the bot as
\* `delivery`: the exception raised (or NoError), the new timestamp and
\* last_status, the log lines written and the bot calls made.
TryBlock(exchange, delivery, chat_id, ts, memory) ==
  AfterRequest(get_api_answer(exchange, ts), delivery, chat_id, ts, memory)

\* The outcome of the except block (lines 180-187).
ExceptResult(raised, previous, notified, log, sends) ==
  [raised |-> raised, last_error |-> previous,
   unique_error_messages |-> notified, log |-> log, sends |-> sends]

\* Lines 185-187: the error notification is sent and remembered.
NotifyErrorNoAdd(text, sent, delivery, logged, previous, notified) ==
  IF sent.raised # NoError
  THEN ExceptResult(sent.raised, previous, notified, logged \o sent.log,
                    << Send("error", sent, delivery) >>)
  ELSE ExceptResult(NoError, text, notified,
                    logged \o sent.log, << Send("error", sent, delivery) >>)

NotifyError(text, sent, delivery, logged, previous, notified) ==
  IF sent.raised # NoError
  THEN ExceptResult(sent.raised, previous, notified, logged \o sent.log,
                    << Send("error", sent, delivery) >>)
  ELSE ExceptResult(NoError, text, notified \cup {text},
                    logged \o sent.log, << Send("error", sent, delivery) >>)

\* Lines 182-187, given the message of line 181.
HandleError(text, message, delivery, chat_id, previous, notified) ==
  IF text = previous
  THEN ExceptResult(NoError, previous, notified,
                    << [level |-> "ERROR", msg |-> message] >>, <<>>)
  ELSE IF ~ShouldNotifyError(text, previous, notified)
  THEN ExceptResult(NoError, text, notified,
                    << [level |-> "ERROR", msg |-> message] >>, <<>>)
  ELSE NotifyError(text, send_message(delivery, chat_id, message), delivery,
                   << [level |-> "ERROR", msg |-> message] >>, previous,
                   notified)

\* Lines 180-187 for the caught `error`, the bot behaving as `delivery`.
ExceptBlock(error, delivery, chat_id, previous, notified) ==
  HandleError(error.text, "Program failure: " \o error.text, delivery, chat_id,
              previous, notified)

\* AfterIteration with the sleep at the end of the try block instead of in
\* a finally clause.
AfterIterationNoFinally(failed) == IF failed THEN "loop" ELSE "sleep"

\* Line 189 in the finally clause: the loop sleeps after the iteration,
\* whether it failed or not.
AfterIteration(failed) == "sleep"

\* ------------------------------------------------------------------- state
VARIABLES
  tokens,                 \* PRACTICUM_TOKEN, TELEGRAM_TOKEN, TELEGRAM_CHAT_ID
  pc,                     \* "start", "loop", "sleep", "exited"
  raised,                 \* the exception propagating out of main, or NoError
  bot,                    \* None until TeleBot(...) is created (line 155)
  timestamp,              \* locals of main (lines 156-159); before line 156
  last_error,             \*   runs they are unbound, written here as 0, None
  unique_error_messages,  \*   and empty
  last_status,
  exchange,               \* this iteration: the HTTP exchange,
  sends,                  \*   the bot.send_message calls,
  log,                    \*   the log lines written,
  error,                  \*   the exception caught by line 180,
  before,                 \*   the locals when the iteration began
  n_iter,                 \* iterations begun
  n_requests,             \* requests.get calls made
  slept,                  \* seconds slept in time.sleep
  error_attempts,         \* error text -> number of chat notifications tried
  status_attempts,        \* number of status notifications tried
  request,                \* this iteration: the params of requests.get
  cursor_source           \* where the cursor's value is from: the clock at
                          \*   startup, or the last successful response

vars ==
  << tokens, pc, raised, bot, timestamp, last_error, unique_error_messages,
     last_status, exchange, sends, log, error, before, n_iter, n_requests,
     slept, error_attempts, status_attempts, request, cursor_source >>

\* Line 76: params of the request.
RequestParams(ts) == [from_date |-> ts]
NoRequest == [from_date |-> 0]

\* The origin of the cursor's value.
Source(from, value) == [from |-> from, value |-> value]

EmptyDict == [k \in {} |-> None]

Locals(ts, previous, notified, memory) ==
  [timestamp |-> ts, last_error |-> previous,
   unique_error_messages |-> notified, last_status |-> memory]

NoLocals == Locals(0, None, {}, EmptyDict)

Init ==
  /\ tokens \in TokenTriples
  /\ pc = "start"
  /\ raised = NoError
  /\ bot = None
  /\ timestamp = 0
  /\ last_error = None
  /\ unique_error_messages = {}
  /\ last_status = EmptyDict
  /\ exchange = NoExchange
  /\ sends = <<>>
  /\ log = <<>>
  /\ error = NoError
  /\ before = NoLocals
  /\ n_iter = 0
  /\ n_requests = 0
  /\ slept = 0
  /\ error_attempts = EmptyDict
  /\ status_attempts = 0
  /\ request = NoRequest
  /\ cursor_source = Source("none", 0)

\* Lines 152-159: the credential check and the creation of the loop state.
Startup ==
  /\ pc = "start"
  /\ LET checked == check_tokens(tokens) IN
     /\ log' = checked.log
     /\ IF ~checked.ok
        THEN /\ raised' = Exc("MissingTokensError", "Required tokens are missing")
             /\ pc' = "exited"
             /\ UNCHANGED << bot, timestamp, cursor_source >>
        ELSE /\ raised' = NoError
             /\ pc' = "loop"
             /\ bot' = "TeleBot"
             /\ timestamp' \in StartTimes
             /\ cursor_source' = Source("startup", timestamp')
  /\ UNCHANGED << tokens, last_error, unique_error_messages, last_status,
                  exchange, sends, error, before, n_iter, n_requests, slept,
                  error_attempts, status_attempts, request >>

\* number of entries of `calls` with the given purpose
CountSends(calls, purpose) ==
  Cardinality({ i \in DOMAIN calls : calls[i].purpose = purpose })

\* error_attempts after the calls of one iteration
CountErrorAttempts(attempts, calls, text) ==
  IF CountSends(calls, "error") = 0 THEN attempts
  ELSE (text :> ((IF text \in DOMAIN attempts THEN attempts[text] ELSE 0)
                 + CountSends(calls, "error"))) @@ attempts

\* The except block when the try block raised, nothing otherwise.
Handle(try, delivery, chat_id, previous, notified) ==
  IF try.raised # NoError
  THEN ExceptBlock(try.raised, delivery, chat_id, previous, notified)
  ELSE ExceptResult(NoError, None, notified, <<>>, <<>>)

\* The bot outcome written for a call that is not made.
Unused(outcomes) == CHOOSE o \in outcomes : TRUE

\* Lines 162-188: one iteration of the loop up to the sleep. A bot outcome
\* among `outcomes` is chosen for each bot call the iteration makes.
IterateWith(outcomes) ==
  /\ pc = "loop"
  /\ n_iter < MaxIter
  /\ \E ex \in Exchanges, d1 \in outcomes :
     \E try \in {TryBlock(ex, d1, tokens.TELEGRAM_CHAT_ID, timestamp,
                          last_status)} :
       /\ d1 = Unused(outcomes) \/ try.sends # <<>>
       /\ \E d2 \in outcomes :
          \E except \in {Handle(try, d2, tokens.TELEGRAM_CHAT_ID, last_error,
                                unique_error_messages)} :
            /\ d2 = Unused(outcomes) \/ except.sends # <<>>
            /\ exchange' = ex
            /\ error' = try.raised
            /\ timestamp' = try.timestamp
            /\ last_status' = try.last_status
            /\ last_error' = except.last_error
            /\ unique_error_messages' = except.unique_error_messages
            /\ raised' = except.raised
            /\ sends' = try.sends \o except.sends
            /\ log' = try.log \o except.log
            /\ error_attempts' =
                 CountErrorAttempts(error_attempts, except.sends,
                                    try.raised.text)
            /\ status_attempts' =
                 status_attempts + CountSends(try.sends, "status")
            /\ pc' = AfterIteration(try.raised # NoError)
            /\ cursor_source' =
                 IF try.raised = NoError
                 THEN Source("response", ex.json.current_date)
                 ELSE cursor_source
  /\ request' = RequestParams(timestamp)
  /\ before' = Locals(timestamp, last_error, unique_error_messages, last_status)
  /\ n_iter' = n_iter + 1
  /\ n_requests' = n_requests + 1
  /\ UNCHANGED << tokens, bot, slept >>

\* An iteration, the bot free to deliver, to fail or to raise.
Iterate == IterateWith(DeliveryOutcomes)

\* An iteration while the chat is down: every bot call fails with
\* TelegramError.
IterateChatDown == IterateWith({"TelegramError"})

\* Line 189: time.sleep(RETRY_PERIOD); then the next iteration, or, when the
\* except block raised, the exception leaves main.
Sleep ==
  /\ pc = "sleep"
  /\ slept' = slept + RETRY_PERIOD
  /\ pc' = IF raised # NoError THEN "exited" ELSE "loop"
  /\ exchange' = NoExchange
  /\ sends' = <<>>
  /\ log' = <<>>
  /\ error' = NoError
  /\ before' = NoLocals
  /\ request' = NoRequest
  /\ UNCHANGED << tokens, raised, bot, timestamp, last_error,
                  unique_error_messages, last_status, n_iter, n_requests,
                  error_attempts, status_attempts, cursor_source >>

Next == Startup \/ Iterate \/ Sleep

Spec == Init /\ [][Next]_vars

\* The program run with the chat down throughout.
NextChatDown == Startup \/ IterateChatDown \/ Sleep

SpecChatDown == Init /\ [][NextChatDown]_vars

\* ------------------------------------------------------------- properties
\* The iteration whose observations the state holds has run to the sleep.
IterationDone == pc = "sleep"

\* The iteration got a 200 response whose body passes check_response.
ValidResponse ==
  /\ exchange.kind = "response"
  /\ exchange.status_code = 200
  /\ exchange.decodable
  /\ exchange.json.type = "dict"
  /\ {"homeworks", "current_date"} \subseteq exchange.json.keys
  /\ exchange.json.homeworks.type = "list"

\* ... and its homeworks list is not empty.
HasHomework ==
  /\ ValidResponse
  /\ exchange.json.homeworks.elems # <<>>

FirstRecord == exchange.json.homeworks.elems[1]

\* The record is a dict with a name and one of the three verdict keys.
WellFormed(hw) ==
  /\ hw.type = "dict"
  /\ \E p \in hw.items : p[1] = "homework_name"
  /\ \E p \in hw.items : p[1] = "status" /\
                         p[2] \in {"approved", "reviewing", "rejected"}

NameOf(hw) == (CHOOSE p \in hw.items : p[1] = "homework_name")[2]
StatusOf(hw) == (CHOOSE p \in hw.items : p[1] = "status")[2]

StatusSends == SelectSeq(sends, LAMBDA c : c.purpose = "status")
ErrorSends == SelectSeq(sends, LAMBDA c : c.purpose = "error")

Logged(level, msg) ==
  \E i \in DOMAIN log : log[i] = [level |-> level, msg |-> msg]

\* C1: over any run, at most one chat notification is attempted for each
\* distinct error text, and every failing iteration writes its error to the
\* log at error level, notified or not.
C1_ErrorNotifiedAtMostOnce ==
  /\ \A t \in DOMAIN error_attempts : error_attempts[t] <= 1
  /\ (IterationDone /\ error # NoError) =>
       /\ Logged("ERROR", "Program failure: " \o error.text)
       /\ Len(ErrorSends) <= 1
       /\ \A i \in DOMAIN ErrorSends :
            ErrorSends[i].text = "Program failure: " \o error.text

\* An error recurs after an iteration that did not fail with it: it was
\* notified before, is logged again and is not notified again.
C1_Witness ==
  /\ IterationDone
  /\ error # NoError
  /\ error.text \in before.unique_error_messages
  /\ before.last_error # error.text
  /\ error_attempts[error.text] = 1
  /\ ErrorSends = <<>>
  /\ Logged("ERROR", "Program failure: " \o error.text)

C3_NotifierNeverRaises ==
  /\ \A i \in DOMAIN sends :
       /\ sends[i].result \in {"True", "False"}
       /\ sends[i].result = "True" <=> sends[i].outcome = "delivered"
       /\ sends[i].outcome # "delivered" =>
            Logged("ERROR", "Error sending message to Telegram: "
                            \o DeliveryErrorText)
  /\ bot # None => pc # "exited"

\* C4: once started, the loop never terminates on its own: no exception
\* leaves it.
C4_LoopNeverTerminates ==
  bot # None => pc # "exited"

\* The names of the unset credentials, in the order of required_tokens.
UnsetNames ==
  (IF tokens.PRACTICUM_TOKEN = None THEN <<"PRACTICUM_TOKEN">> ELSE <<>>)
  \o (IF tokens.TELEGRAM_TOKEN = None THEN <<"TELEGRAM_TOKEN">> ELSE <<>>)
  \o (IF tokens.TELEGRAM_CHAT_ID = None THEN <<"TELEGRAM_CHAT_ID">> ELSE <<>>)

\* C5: with a credential missing, startup logs the missing names at critical
\* level and fails with MissingTokensError; no request is issued, no
\* notification is sent and no loop state is created.
C5_MissingTokensAbortStartup ==
  (pc # "start" /\ UnsetNames # <<>>) =>
    /\ pc = "exited"
    /\ raised.type = "MissingTokensError"
    /\ log = << [level |-> "CRITICAL",
                 msg |-> "Required tokens are missing: "
                         \o Join(", ", UnsetNames)] >>
    /\ n_iter = 0
    /\ n_requests = 0
    /\ sends = <<>>
    /\ slept = 0
    /\ bot = None
    /\ Locals(timestamp, last_error, unique_error_messages, last_status)
         = NoLocals

\* Startup has failed with two credentials unset.
C5_Witness ==
  /\ pc = "exited"
  /\ raised.type = "MissingTokensError"
  /\ Len(UnsetNames) = 2
  /\ tokens.PRACTICUM_TOKEN # None
  /\ Len(log) = 1

\* C6: a failed iteration leaves last_status and the cursor as they were
\* when it began; a response without the homeworks key raises KeyError,
\* which is logged and changes neither.
C6_FailedIterationKeepsState ==
  /\ (IterationDone /\ error # NoError) =>
       /\ last_status = before.last_status
       /\ timestamp = before.timestamp
  /\ (IterationDone /\ exchange.kind = "response" /\ exchange.status_code = 200
      /\ exchange.decodable /\ exchange.json.type = "dict"
      /\ "homeworks" \notin exchange.json.keys) =>
       /\ error.type = "KeyError"
       /\ Logged("ERROR", "Program failure: " \o error.text)
       /\ last_status = before.last_status
       /\ timestamp = before.timestamp

\* A response without the homeworks key arrives when a status is remembered
\* and the cursor has advanced.
C6_Witness ==
  /\ IterationDone
  /\ exchange.decodable
  /\ exchange.json.type = "dict"
  /\ exchange.json.keys = {"current_date"}
  /\ error.type = "KeyError"
  /\ before.last_status # EmptyDict
  /\ before.timestamp = 1700000600
  /\ exchange.json.current_date # before.timestamp
  /\ last_status = before.last_status
  /\ timestamp = before.timestamp

\* C7: a valid response with an empty homeworks list logs 'no new statuses'
\* at debug level, attempts no notification, leaves last_status unchanged and
\* advances the cursor to the response's current_date.
C7_EmptyHomeworksAdvancesCursor ==
  (IterationDone /\ ValidResponse /\ exchange.json.homeworks.elems = <<>>) =>
    /\ error = NoError
    /\ log = << [level |-> "DEBUG", msg |-> "No new statuses in the response"] >>
    /\ sends = <<>>
    /\ last_status = before.last_status
    /\ timestamp = exchange.json.current_date

\* The body {"homeworks": [], "current_date": 1700000000} moves the cursor
\* from another value to 1700000000.
C7_Witness ==
  /\ IterationDone
  /\ ValidResponse
  /\ exchange.json.homeworks.elems = <<>>
  /\ exchange.json.current_date = 1700000000
  /\ before.timestamp # 1700000000
  /\ timestamp = 1700000000
  /\ sends = <<>>

\* The record is no dict, lacks a key or has an unrecognized status.
Malformed(hw) == ~WellFormed(hw)

\* C8: parse_status raises HomeworkStatusError and returns no message for a
\* record that is no dict, lacks homework_name or status, or has a status
\* outside the three verdict keys (whatever the loop's state); when such a
\* record is first in a batch, no status notification is sent and
\* last_status gets no entry for it.
C8_MalformedRecordRejected ==
  /\ \A hw \in HomeworkValues :
       (pc = "loop" /\ Malformed(hw)) =>
         /\ parse_status(hw).raised.type = "HomeworkStatusError"
         /\ parse_status(hw).value = None
  /\ (IterationDone /\ HasHomework /\ Malformed(FirstRecord)) =>
       /\ error # NoError
       /\ StatusSends = <<>>
       /\ last_status = before.last_status

\* A first record with status unknown_status fails the iteration with
\* HomeworkStatusError.
C8_Witness ==
  /\ IterationDone
  /\ HasHomework
  /\ FirstRecord =
       Dict({<<"homework_name", "hw1">>, <<"status", "unknown_status">>})
  /\ error = Exc("HomeworkStatusError",
                 "Unexpected homework status: unknown_status")
  /\ StatusSends = <<>>
  /\ "hw1" \notin DOMAIN last_status

\* The text of the failure for a response with a non-200 status.
UnavailableText(ex, ts) ==
  "Endpoint https://practicum.yandex.ru/api/user_api/homework_statuses/"
  \o " is unavailable.\n API response code: " \o ToString(ex.status_code)
  \o ".\n Request URL: "
  \o "https://practicum.yandex.ru/api/user_api/homework_statuses/?from_date="
  \o ToString(ts) \o ".\n Response headers: " \o ex.headers
  \o ".\n Response text: " \o ex.text

\* C9: a response with a non-200 status makes get_api_answer raise
\* APIRequestError carrying the status code; transport failures and
\* undecodable bodies give APIRequestError too; whenever the loop is about
\* to call the client, the client either returns the decoded body or raises
\* APIRequestError, whatever the network does.
C9_ApiClientOutcomes ==
  /\ IterationDone =>
       /\ (exchange.kind = "response" /\ exchange.status_code # 200) =>
            error = Exc("APIRequestError",
                        UnavailableText(exchange, before.timestamp))
       /\ (exchange.kind = "RequestException"
           \/ (exchange.kind = "response" /\ ~exchange.decodable)) =>
            error.type = "APIRequestError"
       /\ error.type = "APIRequestError" <=>
            ~(exchange.kind = "response" /\ exchange.status_code = 200
              /\ exchange.decodable)
  /\ pc = "loop" =>
       \A ex \in Exchanges : \A api \in {get_api_answer(ex, timestamp)} :
       \/ api.raised.type = "APIRequestError" /\ api.value = None
       \/ /\ api.raised = NoError
          /\ ex.status_code = 200
          /\ api.value = ex.json

\* A 404 response fails the iteration with APIRequestError.
C9_Witness ==
  /\ IterationDone
  /\ exchange.kind = "response"
  /\ exchange.status_code = 404
  /\ error.type = "APIRequestError"
  /\ error.text = UnavailableText(exchange, before.timestamp)

\* C10: every iteration, failed or not, is followed by one sleep of
\* RETRY_PERIOD before the next one starts, and issues one API request.
C10_OneSleepPerIteration ==
  /\ n_requests = n_iter
  /\ pc = "sleep" => (n_iter >= 1 /\ slept = 600 * (n_iter - 1))
  /\ pc # "sleep" => slept = 600 * n_iter

\* Two iterations, the second a failure, each followed by its sleep.
C10_Witness ==
  /\ pc = "loop"
  /\ n_iter = 2
  /\ n_requests = 2
  /\ slept = 1200
  /\ last_error # None

\* C11: the loop starts only with all three credentials non-empty: in every
\* state in which an iteration has begun, each credential is a string that
\* is not empty.
C11_LoopStartsWithNonEmptyCredentials ==
  n_iter >= 1 =>
    \A name \in {"PRACTICUM_TOKEN", "TELEGRAM_TOKEN", "TELEGRAM_CHAT_ID"} :
      tokens[name] # None /\ tokens[name] # ""

\* C12: when a status notification is attempted and send_message returns
\* False, last_status is still updated to the new status in that iteration,
\* and a later iteration that sees the same name with the same status
\* attempts no notification. Checked on the runs in which the chat is down.
C12_RememberedDespiteFailedDelivery ==
  /\ (IterationDone /\ StatusSends # <<>>) =>
       /\ StatusSends[1].result = "False"
       /\ HasHomework
       /\ error = NoError
       /\ NameOf(FirstRecord) \in DOMAIN last_status
       /\ last_status[NameOf(FirstRecord)] = StatusOf(FirstRecord)
  /\ (IterationDone /\ HasHomework /\ WellFormed(FirstRecord)
      /\ NameOf(FirstRecord) \in DOMAIN before.last_status
      /\ before.last_status[NameOf(FirstRecord)] = StatusOf(FirstRecord)) =>
       /\ sends = <<>>
       /\ last_status = before.last_status

\* hw1 reviewing was notified without success in the first iteration; the
\* second iteration sees hw1 reviewing again and sends nothing.
C12_Witness ==
  /\ IterationDone
  /\ n_iter = 2
  /\ before.last_status = ("hw1" :> "reviewing")
  /\ HasHomework
  /\ FirstRecord = Dict({<<"homework_name", "hw1">>, <<"status", "reviewing">>})
  /\ status_attempts = 1
  /\ sends = <<>>

\* C13: the cursor starts as the startup time and changes only at the end of
\* a successful iteration, where it becomes the response's current_date: in
\* every state it is the startup time or the current_date of the most recent
\* successful response, and each request carries it as from_date.
C13_CursorFollowsLastSuccess ==
  /\ bot # None =>
       /\ timestamp = cursor_source.value
       /\ cursor_source.from \in {"startup", "response"}
       /\ cursor_source.from = "startup" => timestamp = 1699999400
  /\ (pc = "loop" /\ n_iter = 0) => cursor_source.from = "startup"
  /\ IterationDone =>
       /\ request.from_date = before.timestamp
       /\ error # NoError => timestamp = before.timestamp
       /\ error = NoError => timestamp = exchange.json.current_date

\* After a successful response dated 1700000600, a failing iteration asks
\* from that date and leaves the cursor there.
C13_Witness ==
  /\ IterationDone
  /\ error # NoError
  /\ cursor_source = Source("response", 1700000600)
  /\ request.from_date = 1700000600
  /\ timestamp = 1700000600

\* The exchange is a 200 response whose body passes check_response with more
\* than one homework.
SeveralHomeworks(ex) ==
  /\ ex.kind = "response"
  /\ ex.status_code = 200
  /\ ex.decodable
  /\ ex.json.type = "dict"
  /\ {"homeworks", "current_date"} \subseteq ex.json.keys
  /\ ex.json.homeworks.type = "list"
  /\ Len(ex.json.homeworks.elems) > 1

\* C14: only the first element of homeworks is considered: the records after
\* it never cause a notification, never add or change a last_status entry
\* and never make the iteration fail. After an iteration whose response has
\* several homeworks, every notification is about the first record, every
\* change of last_status is the first record's name and status, and a
\* failure is the first record's (it is malformed) or the bot's.
C14_OnlyFirstRecordCounts ==
  (IterationDone /\ SeveralHomeworks(exchange)) =>
    /\ Len(StatusSends) <= 1
    /\ \A i \in DOMAIN StatusSends :
         /\ WellFormed(FirstRecord)
         /\ StatusSends[i].text =
              "Review status of work \"" \o NameOf(FirstRecord)
              \o "\" has changed. "
              \o HOMEWORK_VERDICTS[StatusOf(FirstRecord)]
    /\ \A n \in DOMAIN last_status :
         \/ /\ n \in DOMAIN before.last_status
            /\ last_status[n] = before.last_status[n]
         \/ /\ FirstRecord.type = "dict"
            /\ <<"homework_name", n>> \in FirstRecord.items
            /\ <<"status", last_status[n]>> \in FirstRecord.items
    /\ WellFormed(FirstRecord) =>
         \/ error = NoError
         \/ /\ Len(StatusSends) = 1
            /\ StatusSends[1].result = "raised"
            /\ error.type = StatusSends[1].outcome

\* hw1 approved comes first, followed by hw2 rejected and a string: hw1 is
\* notified and remembered, hw2 is not, and the iteration succeeds.
C14_Witness ==
  /\ IterationDone
  /\ SeveralHomeworks(exchange)
  /\ Len(exchange.json.homeworks.elems) = 3
  /\ FirstRecord = Dict({<<"homework_name", "hw1">>, <<"status", "approved">>})
  /\ error = NoError
  /\ Len(sends) = 1
  /\ DOMAIN last_status = {"hw1"}

\* C15: at the end of every iteration last_error reflects its outcome: None
\* after a successful iteration, the error's text after a failing one,
\* whether or not a notification was sent for it.
C15_LastErrorReflectsOutcome ==
  IterationDone =>
    last_error = (IF error = NoError THEN None ELSE error.text)

\* The failure check_response is to raise for a body: "TypeError" (wrong
\* type), "KeyError" (missing key), or "None" when the body is valid.
ShapeFailure(body) ==
  IF body.type # "dict" THEN "TypeError"
  ELSE IF "homeworks" \notin body.keys \/ "current_date" \notin body.keys
  THEN "KeyError"
  ELSE IF body.homeworks.type # "list" THEN "TypeError"
  ELSE "None"

\* C16: check_response raises a wrong-type failure for a response that is no
\* dict, a missing-key failure when homeworks or current_date is absent, a
\* wrong-type failure when homeworks is present but no list, and otherwise
\* returns the homeworks list as it is. Stated for every body whenever the
\* loop is about to poll, and for the body each iteration received.
C16_ResponseClassified ==
  /\ pc = "loop" =>
       \A body \in Bodies : \A checked \in {check_response(body)} :
         /\ checked.raised.type = ShapeFailure(body)
         /\ ShapeFailure(body) = "None" =>
              checked.value = body.homeworks.elems
         /\ ShapeFailure(body) # "None" => checked.value = None
  /\ (IterationDone /\ exchange.kind = "response"
      /\ exchange.status_code = 200 /\ exchange.decodable) =>
       IF ShapeFailure(exchange.json) # "None"
       THEN error.type = ShapeFailure(exchange.json)
       ELSE error.type \notin {"TypeError", "KeyError"}

\* A dict whose homeworks is no list and whose current_date is absent fails
\* with the missing-key failure for current_date.
C16_Witness ==
  /\ IterationDone
  /\ exchange.decodable
  /\ exchange.json = Body("dict", {"homeworks"}, JsonOther("dict"), 0)
  /\ error = Exc("KeyError",
                 "'Expected key \"current_date\" is missing in the API response'")

\* C17: every status remembered in last_status is one of the keys of
\* HOMEWORK_VERDICTS, and an iteration never removes a remembered name.
C17_MemoryHoldsVerdictKeys ==
  /\ \A name \in DOMAIN last_status :
       last_status[name] \in DOMAIN HOMEWORK_VERDICTS
  /\ IterationDone => DOMAIN before.last_status \subseteq DOMAIN last_status

\* With two names remembered, a record of a remembered name arrives with an
\* unrecognized status: rendering fails and the memory is as it was.
C17_Witness ==
  /\ IterationDone
  /\ HasHomework
  /\ FirstRecord = Dict({<<"homework_name", "hw1">>,
                         <<"status", "unknown_status">>})
  /\ DOMAIN before.last_status = {"hw1", "hw2"}
  /\ error.type = "HomeworkStatusError"
  /\ last_status = before.last_status

\* C18: last_error, when not None, is in unique_error_messages; so a failed
\* iteration attempts an error notification exactly when the error text was
\* not in unique_error_messages before it.
C18_LastErrorAlreadyNotified ==
  /\ last_error # None => last_error \in unique_error_messages
  /\ (IterationDone /\ error # NoError) =>
       /\ before.last_error # None =>
            before.last_error \in before.unique_error_messages
       /\ (ErrorSends # <<>>) <=>
            (error.text \notin before.unique_error_messages)
       /\ Len(ErrorSends) <= 1

\* The failure of the iteration before repeats: the comparison with
\* last_error stops the notification, and the text is in the set.
C18_Witness ==
  /\ IterationDone
  /\ error # NoError
  /\ error.text = before.last_error
  /\ error.text \in before.unique_error_messages
  /\ ErrorSends = <<>>
  /\ last_error = error.text

\* C19: an iteration makes at most one notification attempt: a status
\* notification only when it succeeds, an error notification only when it
\* fails, never both.
C19_AtMostOneAttempt ==
  IterationDone =>
    /\ Len(sends) <= 1
    /\ StatusSends # <<>> => (error = NoError /\ ErrorSends = <<>>)
    /\ ErrorSends # <<>> => (error # NoError /\ StatusSends = <<>>)

====
